---- MODULE Spec2Model ----
(***************************************************************************)
(* Model of the GameLoop frame pacing class of webgpu-tutorial             *)
(* (GameLoop.ts, inlined a second time in App.svelte) and of the way       *)
(* runGameOfLife drives it through requestAnimationFrame.                  *)
(*                                                                         *)
(* Times are integer milliseconds, as Date.now() returns them.  The rates  *)
(* of FpsValues all divide 1000, so that 1000 / fps is an integer and the  *)
(* arithmetic of the class is exact; fps = 0 gives the IEEE value          *)
(* +Infinity, modelled by the tag Infinity.                                *)
(***************************************************************************)
EXTENDS Integers, FiniteSets, Sequences, TLC

\* ---------------------------------------------------------------- bounds
\* Date.now() never reads below ClockBase nor above ClockBase + Horizon.
ClockBase == 1190

Horizon == 18

\* the largest forward step of Date.now() between two readings
MaxStep == 7

\* the largest backward step of Date.now() (wall clock adjustment)
MaxBack == 2

MaxClock == ClockBase + Horizon

\* ticks are counted up to MaxTicks
MaxTicks == 3

\* step and the count of updateGrid invocations are kept modulo StepWrap,
\* an even number, which keeps step % 2
StepPeriods == 1

StepWrap == 2 * StepPeriods

\* readings of Date.now() at construction
StartTimes == {ClockBase + 5, ClockBase + 7, ClockBase + 9}

\* the rates handed to the constructor: the two the repository uses (5 in
\* App.svelte, 1000 / 40 = 25 in CGoL.ts), two fast ones, zero and a
\* negative one
FpsValues == {-250, 0, 5, 25, 250, 500}

\* the callbacks handed to the constructor: the one runGameOfLife installs,
\* () => updateGrid(context), which has no throw statement, and any other
\* Function, which may raise
Callbacks == {"updateGrid", "other"}

\* ------------------------------------------------------- number helpers
\* IEEE +Infinity, the value of 1000 / 0; above every finite time value
Infinity == 1000000

Abs(x) == IF x < 0 THEN -x ELSE x

\* the JavaScript remainder a % b: truncated, with the sign of the dividend;
\* a % Infinity is a
JsRem(a, b) ==
  IF b = Infinity THEN a
  ELSE IF a < 0 THEN -((-a) % Abs(b)) ELSE a % Abs(b)

\* 1000 / fps (constructor)
FpsInterval(f) ==
  IF f = 0 THEN Infinity
  ELSE IF f < 0 THEN -(1000 \div (-f)) ELSE 1000 \div f

\* ---------------------------------------------------------------- state
VARIABLES
  pc,                \* "none": no instance; "constructed"; "running"
  fps, fpsInterval, timeOffset, frameOffset, time, timeInFrame, timeDelta,
  drawCall,          \* the callback of the instance
  step,              \* the step counter of runGameOfLife
  pending,           \* frame requests registered with the host, not yet run
  clock,             \* the latest reading of Date.now()
  \* history of the latest tick
  ticks,             \* runLoop executions so far, counted up to MaxTicks
  prevNow,           \* Date.now() as read by the tick before the latest one
  frameOffsetBefore, \* frameOffset at the start of the latest tick
  timeInFrameBefore, \* timeInFrame at the start of the latest tick
  invoked,           \* drawCall invocations made by the latest tick
  invokedBefore,     \* drawCall invocations made by the tick before it
  prevFire,          \* Date.now() as read by the latest tick that fired
                     \* before the latest tick; 0 when there is none
  threw,             \* the latest tick ended by an exception of drawCall
  threwBefore,       \* an earlier tick ended by an exception of drawCall
  monotone,          \* no tick read Date.now() below the tick before it
  \* history of updateGrid; a group of NoGroup stands for no invocation
  updates,           \* invocations of updateGrid so far
  computeGroup,      \* index of the bind group of its latest compute pass
  renderGroup,       \* index of the bind group of its latest render pass
  prevComputeGroup   \* computeGroup of the invocation before the latest

vars == <<pc, fps, fpsInterval, timeOffset, frameOffset, time, timeInFrame,
          timeDelta, drawCall, step, updates, computeGroup, renderGroup,
          prevComputeGroup, pending, clock, ticks, prevNow, frameOffsetBefore,
          timeInFrameBefore, invoked, invokedBefore, prevFire, threw,
          threwBefore, monotone>>

history == <<ticks, prevNow, frameOffsetBefore, timeInFrameBefore, invoked,
             invokedBefore, prevFire, threw, threwBefore, monotone>>

grid == <<step, updates, computeGroup, renderGroup, prevComputeGroup>>

NoGroup == 2

\* before the constructor has run the fields hold no value (0 stands for
\* undefined) and nothing is registered
Init ==
  /\ pc = "none"
  /\ fps = 0 /\ fpsInterval = 0 /\ timeOffset = 0 /\ frameOffset = 0
  /\ time = 0 /\ timeInFrame = 0 /\ timeDelta = 0
  /\ drawCall = "undefined"
  /\ step = 0 /\ updates = 0
  /\ computeGroup = NoGroup /\ renderGroup = NoGroup
  /\ prevComputeGroup = NoGroup
  /\ pending = 0
  /\ clock = ClockBase
  /\ ticks = 0 /\ prevNow = 0 /\ frameOffsetBefore = 0
  /\ timeInFrameBefore = 0 /\ invoked = 0 /\ invokedBefore = 0
  /\ prevFire = 0
  /\ threw = FALSE /\ threwBefore = FALSE /\ monotone = TRUE

\* ----------------------------------------------------------- the class
\* the constructor throws for no rate: it has no check of fps
ConstructorThrows(f) == FALSE

\* new GameLoop(fps, drawCall)
Construct(f, cb, now) ==
  /\ pc = "none"
  /\ ~ConstructorThrows(f)
  /\ pc' = "constructed"
  /\ timeOffset' = now
  /\ frameOffset' = 0
  /\ fps' = f
  /\ fpsInterval' = FpsInterval(f)
  /\ drawCall' = cb
  /\ time' = 0 /\ timeInFrame' = 0 /\ timeDelta' = 0
  /\ clock' = now
  /\ UNCHANGED <<pending, history, grid>>

\* a gate that also passes when exactly one interval has elapsed
GateInclusive(tif, interval) ==
  IF interval = Infinity THEN FALSE ELSE tif >= interval

\* the rate gate: this.timeInFrame > this.fpsInterval
Gate(tif, interval) ==
  IF interval = Infinity THEN FALSE ELSE tif > interval

\* a re-synchronisation that rounds up, to the boundary after now
ResyncAhead(now, tif, interval) == now - JsRem(tif, interval) + Abs(interval)

\* the boundary a passing tick re-synchronises to
Resync(now, tif, interval) == now - JsRem(tif, interval)

\* a boundary reset to now by every tick, outside the if
NewFrameOffsetEveryTick(old, now, tif, interval) == now

\* frameOffset after a tick: assigned inside the if only
NewFrameOffset(old, now, tif, interval) ==
  IF Gate(tif, interval) THEN Resync(now, tif, interval) ELSE old

\* a catch-up loop: one invocation for each whole interval elapsed
DrawCallsCatchUp(tif, interval) ==
  IF Gate(tif, interval)
  THEN (IF interval > 0 /\ tif >= 0 THEN tif \div interval ELSE 1)
  ELSE 0

\* the number of drawCall invocations of one tick
DrawCalls(tif, interval) == IF Gate(tif, interval) THEN 1 ELSE 0

\* a registration made as the last statement, which an exception skips
FrameRequestsAfterCallback(raised) == IF raised THEN 0 ELSE 1

\* a registration made twice
FrameRequestsTwice(raised) == 2

\* the frame requests one execution of runLoop registers: one, at its first
\* statement, whether or not drawCall raises afterwards
FrameRequests(raised) == 1

\* the cell buffers of the two bind groups: binding 1, read-only-storage,
\* is the buffer the shaders read, binding 2, storage, the one the compute
\* shader writes; bindGroups[i] is BindGroups[i + 1]
BindGroups ==
  << [read |-> 0, write |-> 1], [read |-> 1, write |-> 0] >>

\* updateGrid: the bind group of the compute pass, bindGroups[step % 2]
ComputePassGroup(s) == s % 2

\* updateGrid: ++step, between the two passes
StepAfterCompute(s) == (s + 1) % StepWrap

\* a render pass that takes its bind group before step is incremented
RenderPassGroupStale(s) == s % 2

\* updateGrid: the bind group of the render pass, bindGroups[step % 2] with
\* the incremented step; s is step at the start of updateGrid
RenderPassGroup(s) == StepAfterCompute(s) % 2

\* updateGrid(context), run by a tick that makes n calls of drawCall
UpdateGrid(n) ==
  IF n > 0 /\ drawCall = "updateGrid"
  THEN /\ computeGroup' = ComputePassGroup(step)
       /\ step' = StepAfterCompute(step)
       /\ renderGroup' = RenderPassGroup(step)
       /\ prevComputeGroup' = computeGroup
       /\ updates' = (updates + 1) % StepWrap
  ELSE UNCHANGED grid

\* the readings Date.now() can give after the reading clock
NowValues ==
  {n \in (clock - MaxBack)..(clock + MaxStep) : n >= ClockBase /\ n <= MaxClock}

\* runLoop, reading now from Date.now(); throws says whether drawCall, if
\* invoked, raises an exception, which runLoop lets through to its caller;
\* others is the number of frame requests pending besides the one running
RunLoopBody(now, throws, others) ==
  LET newTime == now - timeOffset
      tif == now - frameOffset
      n == DrawCalls(tif, fpsInterval)
      raised == n > 0 /\ throws /\ drawCall = "other"
  IN /\ UpdateGrid(n)
     /\ pending' = others + FrameRequests(raised)
     /\ timeDelta' = newTime - time
     /\ time' = newTime
     /\ timeInFrame' = tif
     /\ frameOffset' = NewFrameOffset(frameOffset, now, tif, fpsInterval)
     /\ invoked' = n
     /\ invokedBefore' = invoked
     /\ prevFire' = IF invoked >= 1 THEN clock ELSE prevFire
     /\ timeInFrameBefore' = timeInFrame
     /\ threw' = raised
     /\ threwBefore' = (threwBefore \/ threw)
     /\ clock' = now
     /\ prevNow' = clock
     /\ frameOffsetBefore' = frameOffset
     /\ ticks' = IF ticks < MaxTicks THEN ticks + 1 ELSE MaxTicks
     /\ monotone' = (monotone /\ (ticks = 0 \/ now >= clock))
     /\ UNCHANGED <<fps, fpsInterval, timeOffset, drawCall>>

\* game.runLoop(), called once by runGameOfLife right after construction
Start(now, throws) ==
  /\ pc = "constructed"
  /\ pc' = "running"
  /\ RunLoopBody(now, throws, pending)

\* the host runs a pending frame request: () => this.runLoop()
Frame(now, throws) ==
  /\ pc = "running"
  /\ pending > 0
  /\ pc' = pc
  /\ RunLoopBody(now, throws, pending - 1)

Next ==
  \/ \E f \in FpsValues, cb \in Callbacks, now \in StartTimes :
        Construct(f, cb, now)
  \/ \E now \in NowValues, throws \in BOOLEAN : Start(now, throws)
  \/ \E now \in NowValues, throws \in BOOLEAN : Frame(now, throws)

Spec == Init /\ [][Next]_vars

TypeOK ==
  /\ pc \in {"none", "constructed", "running"}
  /\ fps \in FpsValues
  /\ pending \in 0..1
  /\ clock \in ClockBase..MaxClock
  /\ invoked \in 0..1
  /\ ticks \in 0..MaxTicks

\* ---------------------------------------------------------------- claims
\* After a tick, clock is the time the tick read, frameOffsetBefore the
\* boundary it started with and invoked the number of calls it made.

\* C1: on every tick of a loop with a positive interval the callback is
\* invoked if and only if the time read minus the boundary held at the start
\* of the tick is strictly greater than the interval; a difference equal to
\* the interval does not fire.
C1_GateCorrectness ==
  (ticks > 0 /\ fpsInterval > 0) =>
    (invoked >= 1 <=> clock - frameOffsetBefore > fpsInterval)

\* a tick exactly one interval after the boundary, which made no call
C1_Witness ==
  /\ ticks > 0 /\ fpsInterval > 0
  /\ clock - frameOffsetBefore = fpsInterval
  /\ invoked = 0

\* C2: after every tick at time t that fires, with g = t - boundary before
\* the tick, the boundary is t - (g mod interval), it is at most t, and
\* t - boundary is below the interval.
C2_DriftFreeResync ==
  (ticks > 0 /\ invoked >= 1) =>
    LET g == clock - frameOffsetBefore
    IN /\ frameOffset = clock - JsRem(g, fpsInterval)
       /\ frameOffset <= clock
       /\ clock - frameOffset < fpsInterval

\* C3: no GameLoop instance exists with fps <= 0, so no tick runs with a
\* non-positive or infinite interval.
C3_InvalidRateRejected ==
  /\ pc # "none" => fps > 0
  /\ ticks > 0 => (fpsInterval > 0 /\ fpsInterval # Infinity)

\* C4: with targetRate = 5 the callback does not fire on a tick whose time
\* since construction is below the interval of 200 ms; the first fire is not
\* at the first tick.
C4_FirstFireAfterOneInterval ==
  (fps = 5 /\ ticks > 0 /\ invoked >= 1) => (time >= 200 /\ ticks > 1)

\* C5, as stated: after a tick whose callback threw no frame request is
\* registered, and the callback is never invoked again.
C5_CallbackFailureStopsLoop ==
  /\ threw => pending = 0
  /\ threwBefore => invoked = 0

\* C5, amended: the exception leaves runLoop uncaught, but the next frame
\* request was registered before the callback ran: one request stays
\* pending, and every later tick invokes the callback exactly when it passes
\* the gate.
C5_CallbackFailureKeepsLoop ==
  /\ threw => (pending = 1 /\ invoked = 1)
  /\ threwBefore =>
       /\ pending = 1
       /\ invoked >= 1 <=> clock - frameOffsetBefore > fpsInterval

\* a tick that invoked the callback after an earlier tick's callback threw
C5_Witness == threwBefore /\ invoked = 1 /\ pending = 1

\* C6: a tick invokes the callback at most once, however many intervals have
\* elapsed, and the tick after a tick that fired fires only if more than one
\* interval has passed since the boundary that tick re-synchronised to.
C6_AtMostOneFire ==
  ticks > 0 =>
    /\ invoked <= 1
    /\ (ticks > 1 /\ invokedBefore >= 1 /\ invoked >= 1) =>
         clock - frameOffsetBefore > fpsInterval

\* the tick after a host stall of more than three intervals: the stalled
\* tick, not the first of the loop, fired once, and this one does not fire
C6_Witness ==
  /\ ticks = MaxTicks /\ fpsInterval > 0 /\ fpsInterval # Infinity
  /\ timeInFrameBefore > 3 * fpsInterval
  /\ invokedBefore = 1
  /\ invoked = 0

\* C7: once runLoop has been started exactly one frame request is pending
\* after every tick, and none is before; never more than one.
C7_SingleInFlight ==
  /\ pending <= 1
  /\ pc = "running" <=> pending = 1

\* the loop after three ticks or more, one request pending
C7_Witness == pc = "running" /\ ticks = MaxTicks /\ pending = 1

\* C8: with non-decreasing tick times, a tick that arrives strictly more
\* than one interval after the tick before it invokes the callback.
C8_SlowHostFiresEveryTick ==
  (ticks > 1 /\ monotone /\ clock - prevNow > fpsInterval) => invoked >= 1

\* a tick more than one positive interval after a tick that had fired
C8_Witness ==
  /\ ticks > 1 /\ monotone /\ fpsInterval > 0
  /\ clock - prevNow > fpsInterval
  /\ invokedBefore = 1 /\ invoked = 1

\* C9: with non-decreasing tick times the boundary never decreases, each
\* change adds a positive integer multiple of the interval to it, and the
\* residual of the elapsed time is the same before and after the advance.
C9_BoundaryMonotone ==
  (ticks > 0 /\ monotone) =>
    LET d == frameOffset - frameOffsetBefore
    IN /\ d >= 0
       /\ d # 0 =>
            /\ fpsInterval > 0 /\ fpsInterval # Infinity
            /\ d % fpsInterval = 0
            /\ (clock - frameOffset) % fpsInterval
                 = (clock - frameOffsetBefore) % fpsInterval

\* C10: a tick that does not pass the gate makes no call and leaves the
\* boundary, the interval, the rate and the origin as they were; the
\* boundary changes only in a tick that fires.
C10_NoFireNoEffect ==
  [][/\ (pc' = "running" /\ invoked' = 0) =>
          /\ frameOffset' = frameOffset
          /\ fpsInterval' = fpsInterval
          /\ fps' = fps
          /\ timeOffset' = timeOffset
     /\ frameOffset' # frameOffset => (pc' = "running" /\ invoked' >= 1)]_vars

\* a tick that made no call, kept the boundary and updated the timing fields
C10_Witness ==
  /\ ticks > 1 /\ invoked = 0
  /\ frameOffset = frameOffsetBefore
  /\ timeDelta > 0 /\ time = clock - timeOffset
  /\ timeInFrame = clock - frameOffset
\* the interval-wide slot of the boundary grid that the time t falls in
C11_Slot(t) ==
  IF fpsInterval = Infinity THEN 0 ELSE t \div Abs(fpsInterval)

\* C11: with non-decreasing tick times, however fast the host ticks, two
\* distinct fires fall in different interval-wide slots of the boundary
\* grid, so a window of N intervals holds at most N + 1 invocations.
C11_RateLimited ==
  (ticks > 1 /\ monotone /\ invoked >= 1 /\ prevFire # 0) =>
    C11_Slot(clock) # C11_Slot(prevFire)
\* C12: the k-th invocation of updateGrid (k = 0, 1, ...) runs its compute
\* pass with bindGroups[k mod 2], reading cell buffer k mod 2 and writing
\* buffer (k + 1) mod 2, and its render pass with bindGroups[(k + 1) mod 2],
\* which reads the buffer that compute pass wrote; the compute pass reads
\* the buffer the invocation before wrote, and no pass reads the buffer it
\* writes.
C12_PingPong ==
  computeGroup # NoGroup =>
    LET k == (updates + StepWrap - 1) % StepWrap
        c == BindGroups[computeGroup + 1]
        r == BindGroups[renderGroup + 1]
    IN /\ computeGroup = k % 2
       /\ c.read = k % 2 /\ c.write = (k + 1) % 2
       /\ renderGroup = (k + 1) % 2
       /\ r.read = c.write
       /\ c.read # c.write
       /\ prevComputeGroup # NoGroup =>
            c.read = BindGroups[prevComputeGroup + 1].write

\* a second or later invocation of updateGrid, made by the latest tick
C12_Witness ==
  /\ drawCall = "updateGrid" /\ invoked = 1
  /\ prevComputeGroup = 0 /\ computeGroup = 1 /\ renderGroup = 0
====
